---- MODULE Spec2Model ----
(***************************************************************************)
(* Model of igl::opengl::TextureBuffer (src/src/igl/opengl/TextureBuffer.cpp):*)
(* the lifecycle of one texture resource (create, upload, uploadCube,       *)
(* getTextureId, destruction) against one OpenGL context.  Every action is  *)
(* one whole public call; the backend calls it issues are recorded, in      *)
(* order, in `calls`, and the context state (bindings, unpack alignment) is *)
(* obtained by replaying that record.                                       *)
(***************************************************************************)
EXTENDS Integers, Sequences, FiniteSets, TLC

\* ------------------------------------------------------------------ bounds
MaxMipLevels == 2      \* descriptors carry 1..MaxMipLevels mip levels
TexSize == 2           \* width/height (and depth / layer count) of level 0
MaxHandle == 1         \* the backend returns a handle in 0..MaxHandle
MaxGetCalls == 2       \* getTextureId is called at most this often on one resource
MaxLoads == 4          \* loadImageData is called at most this often on one loader
IntMax == 2            \* stands for std::numeric_limits<int>::max()

\* ------------------------------------------------------------ result codes
Ok == "Ok"
Unsupported == "Unsupported"
ArgumentInvalid == "ArgumentInvalid"
ArgumentOutOfRange == "ArgumentOutOfRange"
InvalidOperation == "InvalidOperation"
Unimplemented == "Unimplemented"
RuntimeError == "RuntimeError"

\* ---------------------------------------------------------------- GL names
NoTarget == "0"
GL_TEXTURE_1D == "GL_TEXTURE_1D"
GL_TEXTURE_1D_ARRAY == "GL_TEXTURE_1D_ARRAY"
GL_TEXTURE_2D == "GL_TEXTURE_2D"
GL_TEXTURE_2D_ARRAY == "GL_TEXTURE_2D_ARRAY"
GL_TEXTURE_3D == "GL_TEXTURE_3D"
GL_TEXTURE_CUBE_MAP == "GL_TEXTURE_CUBE_MAP"
GL_TEXTURE_EXTERNAL_OES == "GL_TEXTURE_EXTERNAL_OES"
BindTargets ==
  {GL_TEXTURE_1D, GL_TEXTURE_1D_ARRAY, GL_TEXTURE_2D, GL_TEXTURE_2D_ARRAY,
   GL_TEXTURE_3D, GL_TEXTURE_CUBE_MAP, GL_TEXTURE_EXTERNAL_OES}

kCubeFaceTargets ==
  <<"GL_TEXTURE_CUBE_MAP_POSITIVE_X", "GL_TEXTURE_CUBE_MAP_NEGATIVE_X",
    "GL_TEXTURE_CUBE_MAP_POSITIVE_Y", "GL_TEXTURE_CUBE_MAP_NEGATIVE_Y",
    "GL_TEXTURE_CUBE_MAP_POSITIVE_Z", "GL_TEXTURE_CUBE_MAP_NEGATIVE_Z">>

\* ------------------------------------------------- descriptors and devices
TextureType ==
  {"OneD", "OneDArray", "TwoD", "TwoDArray", "ThreeD", "Cube", "ExternalImage"}

\* "NoComponentType" stands for a catalog entry that resolves to a descriptor
\* without a component type; "Invalid" is in no catalog entry.
TextureFormat == {"RGBA_UNorm8", "A_UNorm8", "RGB8_ETC2", "NoComponentType", "Invalid"}

UsageInputs == {{"Attachment"}, {"Sampled"}, {"Sampled", "Storage"}}

DeviceFeatureNames ==
  {"TexStorage",                    \* InternalFeatures::TexStorage
   "FormatStorageCapability",       \* TextureFormatCapabilityBits::Storage for the format
   "TextureCompressionTexStorage",  \* TextureFeatures::TextureCompressionTexStorage
   "TextureCompressionTexImage",    \* TextureFeatures::TextureCompressionTexImage
   "SwizzleAlphaTexturesReq",       \* InternalRequirement::SwizzleAlphaTexturesReq
   "Texture2DArray",                \* DeviceFeatures::Texture2DArray
   "Texture3D"}                     \* DeviceFeatures::Texture3D

TextureDescs ==
  [type : TextureType, format : TextureFormat, usage : UsageInputs,
   numMipLevels : 1..MaxMipLevels]

\* The features the code consults for a descriptor: TexStorage and the format's
\* Storage capability only under Storage usage, the compression features only
\* for a compressed format, the swizzle requirement only for A_UNorm8, and the
\* 2D-array / 3D features only for those dimensionalities.
ConsultedFeatures(d) ==
  (IF "Storage" \in d.usage THEN {"TexStorage", "FormatStorageCapability"} ELSE {})
  \cup (IF d.format = "RGB8_ETC2"
        THEN {"TextureCompressionTexStorage", "TextureCompressionTexImage"} ELSE {})
  \cup (IF d.format = "A_UNorm8" THEN {"SwizzleAlphaTexturesReq"} ELSE {})
  \cup (IF d.type = "TwoDArray" THEN {"Texture2DArray"} ELSE {})
  \cup (IF d.type = "ThreeD" THEN {"Texture3D"} ELSE {})

VARIABLES
  features,          \* the device's feature set (fixed at construction)
  texDesc,           \* the TextureDesc the resource is constructed for and created with
  format_,           \* the texture format given to the constructor
  phase,             \* "new" | "created" | "destroyed"
  type_,             \* TextureType recorded by Texture::create ("Invalid" before)
  numMipLevels_,     \* mip count recorded by Texture::create
  usage_,            \* setUsage(desc.usage)
  textureID_,        \* backend object id, 0 = none
  target_,           \* GL target, NoTarget = none
  formatDescGL_,     \* resolved FormatDescGL
  glInternalFormat_, \* formatDescGL_.internalFormat copied at creation
  textureHandle_,    \* cached bindless handle, 0 = not resolved
  bound,             \* context: texture id bound to each target
  unpackAlignment,   \* context: GL_UNPACK_ALIGNMENT
  calls,             \* backend calls issued by the most recent operation
  ret,               \* the most recent call: its name, Result (res), the Result of the
                     \* step inside it (inner), two of its inputs, its return value
  hist,              \* lifetime counts of backend calls, and what create did
  loader             \* ImageLoaderAndroid: its asset manager, the asset calls and the
                     \* ImageData of its most recent loadImageData, lifetime counts

vars ==
  <<features, texDesc, format_, phase, type_, numMipLevels_, usage_, textureID_, target_,
    formatDescGL_, glInternalFormat_, textureHandle_, bound, unpackAlignment,
    calls, ret, hist, loader>>

\* ------------------------------------------------------------ small helpers
Max(a, b) == IF a >= b THEN a ELSE b

RECURSIVE Halve(_, _)
\* v >> n
Halve(v, n) == IF n = 0 THEN v ELSE Halve(v \div 2, n - 1)

NoRange ==
  [mipLevel |-> 0, x |-> 0, y |-> 0, z |-> 0, layer |-> 0, width |-> 0, height |-> 0,
   depth |-> 0, numLayers |-> 0, numMipLevels |-> 0]

\* One backend call: function name, target, integer arguments in call order,
\* format tags in call order, whether the data pointer is non-null, and (for
\* transfers) the range the call was issued for.
GLCall(fn, target, args, tags, data, rng) ==
  [fn |-> fn, target |-> target, args |-> args, tags |-> tags, data |-> data, rng |-> rng]

\* The view of the resource the routines read.
TexView(id, target, type, usage, mips, fd) ==
  [id |-> id, target |-> target, type |-> type, usage |-> usage, numMipLevels |-> mips,
   fd |-> fd]

Tex == TexView(textureID_, target_, type_, usage_, numMipLevels_, formatDescGL_)

NoFormatDescGL == [internalFormat |-> "GL_NONE", format |-> "GL_NONE", type |-> "GL_NONE"]

\* ------------------------------------------- device and format properties
hasFeature(f) == f \in features

\* TextureFormatProperties::isCompressed for the constructor's format
isCompressed == format_ = "RGB8_ETC2"

\* FormatCatalog: toFormatDescGL(format, usage, out).  ok = FALSE for a pair
\* that is not in the catalog; Storage usage resolves to the sized encoding,
\* and so does RGBA_UNorm8 for a usage that is neither sampled nor storage
\* (a render target only).
toFormatDescGL(format, usage) ==
  CASE format = "RGBA_UNorm8" ->
         [ok |-> TRUE,
          fd |-> [internalFormat |->
                    IF "Storage" \in usage \/ usage \cap {"Sampled", "Storage"} = {}
                    THEN "GL_RGBA8" ELSE "GL_RGBA",
                  format |-> "GL_RGBA", type |-> "GL_UNSIGNED_BYTE"]]
    [] format = "A_UNorm8" ->
         [ok |-> TRUE,
          fd |-> [internalFormat |-> IF "Storage" \in usage THEN "GL_ALPHA8" ELSE "GL_ALPHA",
                  format |-> "GL_ALPHA", type |-> "GL_UNSIGNED_BYTE"]]
    [] format = "RGB8_ETC2" ->
         [ok |-> TRUE,
          fd |-> [internalFormat |-> "GL_COMPRESSED_RGB8_ETC2", format |-> "GL_RGB",
                  type |-> "GL_NONE"]]
    [] format = "NoComponentType" ->
         [ok |-> TRUE,
          fd |-> [internalFormat |-> "GL_RGB", format |-> "GL_RGB", type |-> "GL_NONE"]]
    [] OTHER -> [ok |-> FALSE, fd |-> NoFormatDescGL]

\* Texture::toGLTarget(type, numSamples): 0 for a dimensionality the backend lacks
toGLTarget(type) ==
  CASE type = "OneD" -> GL_TEXTURE_1D
    [] type = "OneDArray" -> GL_TEXTURE_1D_ARRAY
    [] type = "TwoD" -> GL_TEXTURE_2D
    [] type = "TwoDArray" ->
         IF hasFeature("Texture2DArray") THEN GL_TEXTURE_2D_ARRAY ELSE NoTarget
    [] type = "ThreeD" -> IF hasFeature("Texture3D") THEN GL_TEXTURE_3D ELSE NoTarget
    [] type = "Cube" -> GL_TEXTURE_CUBE_MAP
    [] type = "ExternalImage" -> GL_TEXTURE_EXTERNAL_OES
    [] OTHER -> NoTarget

\* Extent of level 0 recorded by Texture::create, by dimensionality
BaseWidth(type) == TexSize
BaseHeight(type) == IF type \in {"OneD", "OneDArray"} THEN 1 ELSE TexSize
BaseDepth(type) == IF type = "ThreeD" THEN TexSize ELSE 1
BaseLayers(type) == IF type \in {"OneDArray", "TwoDArray"} THEN TexSize ELSE 1

\* Texture::getFullRange(mipLevel, numMipLevels)
getFullRange(t, mipLevel, numMipLevels) ==
  [mipLevel |-> mipLevel, x |-> 0, y |-> 0, z |-> 0, layer |-> 0,
   width |-> Max(Halve(BaseWidth(t.type), mipLevel), 1),
   height |-> Max(Halve(BaseHeight(t.type), mipLevel), 1),
   depth |-> Max(Halve(BaseDepth(t.type), mipLevel), 1),
   numLayers |-> BaseLayers(t.type),
   numMipLevels |-> numMipLevels]

\* ITexture::validateRange: the range must have an extent of at least 1 in
\* every coordinate (ArgumentInvalid otherwise) and lie inside the resource at
\* its level (ArgumentOutOfRange otherwise)
validateRange(t, range) ==
  LET Within(full) ==
        /\ range.mipLevel < t.numMipLevels
        /\ range.x + range.width <= full.width
        /\ range.y + range.height <= full.height
        /\ range.z + range.depth <= full.depth
        /\ range.layer + range.numLayers <= full.numLayers
  IN IF range.width < 1 \/ range.height < 1 \/ range.depth < 1 \/ range.numLayers < 1
     THEN ArgumentInvalid
     ELSE IF Within(getFullRange(t, range.mipLevel, 1)) THEN Ok ELSE ArgumentOutOfRange

\* Texture::isValidForTexImage: the range covers the whole level
isValidForTexImage(t, range) ==
  LET Covers(full) ==
        /\ range.x = 0 /\ range.y = 0 /\ range.z = 0 /\ range.layer = 0
        /\ range.width = full.width /\ range.height = full.height
        /\ range.depth = full.depth /\ range.numLayers = full.numLayers
  IN Covers(getFullRange(t, range.mipLevel, 1))

\* TextureFormatProperties::getBytesPerRange for the 4x4-block, 8-byte format
getBytesPerRange(range) ==
  ((range.width + 3) \div 4) * ((range.height + 3) \div 4) * 8
    * range.depth * range.numLayers

\* Texture::getAlignment(stride, mipLevel): the largest of 8, 4, 2, 1 dividing
\* the row stride; a zero hint stands for the tightly packed row of the level
getAlignment(t, bytesPerRow, mipLevel) ==
  LET bpp == IF format_ = "A_UNorm8" THEN 1 ELSE 4
      stride == IF bytesPerRow # 0 THEN bytesPerRow
                ELSE Max(Halve(BaseWidth(t.type), mipLevel), 1) * bpp
  IN IF isCompressed THEN 1
     ELSE IF stride % 8 = 0 THEN 8
     ELSE IF stride % 4 = 0 THEN 4
     ELSE IF stride % 2 = 0 THEN 2
     ELSE 1

\* IContext::getLastError, polled after a call; err is what the driver reports
getLastError(err) == IF err THEN RuntimeError ELSE Ok

\* Mutant: the format's Storage capability bit is not consulted
supportsTexStorage_UsageOnly(t) == "Storage" \in t.usage

\* TextureBuffer::supportsTexStorage
supportsTexStorage(t) ==
  "Storage" \in t.usage /\ hasFeature("FormatStorageCapability")

\* TextureBuffer::canInitialize
canInitialize(t) ==
  \/ ~isCompressed
  \/ (supportsTexStorage(t) /\ hasFeature("TextureCompressionTexStorage"))
  \/ hasFeature("TextureCompressionTexImage")

\* Mutant: the allocation strategy is not consulted
useTexImage_IgnoresStorage(t, range) == isValidForTexImage(t, range)

\* "Use TexImage when range covers full texture AND texture was not initialized
\* with TexStorage" (the same line in each of the five routines)
useTexImage(t, range) == isValidForTexImage(t, range) /\ ~supportsTexStorage(t)

Routine(calls_, res) == [calls |-> calls_, res |-> res]

\* --------------------------------------------- per-dimension upload routines
\* Each routine returns the backend calls it issues and its Result.  data is
\* TRUE for a non-null pointer; err is what the getLastError poll reports.

\* TextureBuffer::upload1D
upload1D(t, target, range, data, err) ==
  LET numCompressedBytes == getBytesPerRange(range)
      Transfer(texImage) ==
        IF ~data \/ ~isCompressed
        THEN IF texImage
             THEN GLCall("texImage1D", target, <<range.mipLevel, range.width, 0>>,
                         <<t.fd.internalFormat, t.fd.format, t.fd.type>>, data, range)
             ELSE GLCall("texSubImage1D", target, <<range.mipLevel, range.x, range.width>>,
                         <<t.fd.format, t.fd.type>>, data, range)
        ELSE IF texImage
             THEN GLCall("compressedTexImage1D", target,
                         <<range.mipLevel, range.width, 0, numCompressedBytes>>,
                         <<t.fd.internalFormat>>, data, range)
             ELSE GLCall("compressedTexSubImage1D", t.target,
                         <<range.mipLevel, range.x, range.width, numCompressedBytes>>,
                         <<t.fd.internalFormat>>, data, range)
      Checked(result) ==
        IF result # Ok THEN Routine(<<>>, result)
        ELSE Routine(<<Transfer(useTexImage(t, range))>>, getLastError(err))
  IN Checked(validateRange(t, range))

\* TextureBuffer::upload1DArray
upload1DArray(t, target, range, data, err) ==
  LET numCompressedBytes == getBytesPerRange(range)
      Transfer(texImage) ==
        IF ~data \/ ~isCompressed
        THEN IF texImage
             THEN GLCall("texImage2D", target,
                         <<range.mipLevel, range.width, range.numLayers, 0>>,
                         <<t.fd.internalFormat, t.fd.format, t.fd.type>>, data, range)
             ELSE GLCall("texSubImage2D", target,
                         <<range.mipLevel, range.x, range.layer, range.width, range.numLayers>>,
                         <<t.fd.format, t.fd.type>>, data, range)
        ELSE IF texImage
             THEN GLCall("compressedTexImage2D", target,
                         <<range.mipLevel, range.width, range.numLayers, 0, numCompressedBytes>>,
                         <<t.fd.internalFormat>>, data, range)
             ELSE GLCall("compressedTexSubImage2D", t.target,
                         <<range.mipLevel, range.x, range.layer, range.width, range.numLayers,
                           numCompressedBytes>>,
                         <<t.fd.internalFormat>>, data, range)
      Checked(result) ==
        IF result # Ok THEN Routine(<<>>, result)
        ELSE Routine(<<Transfer(useTexImage(t, range))>>, getLastError(err))
  IN Checked(validateRange(t, range))

\* Mutant: the transfer is issued whatever validateRange answers
upload2D_TransfersUnvalidated(t, target, range, data, err) ==
  LET numCompressedBytes == getBytesPerRange(range)
      Transfer(texImage) ==
        IF ~data \/ ~isCompressed
        THEN IF texImage
             THEN GLCall("texImage2D", target,
                         <<range.mipLevel, range.width, range.height, 0>>,
                         <<t.fd.internalFormat, t.fd.format, t.fd.type>>, data, range)
             ELSE GLCall("texSubImage2D", target,
                         <<range.mipLevel, range.x, range.y, range.width, range.height>>,
                         <<t.fd.format, t.fd.type>>, data, range)
        ELSE IF texImage
             THEN GLCall("compressedTexImage2D", target,
                         <<range.mipLevel, range.width, range.height, 0, numCompressedBytes>>,
                         <<t.fd.internalFormat>>, data, range)
             ELSE GLCall("compressedTexSubImage2D", t.target,
                         <<range.mipLevel, range.x, range.y, range.width, range.height,
                           numCompressedBytes>>,
                         <<t.fd.internalFormat>>, data, range)
  IN Routine(<<Transfer(useTexImage(t, range))>>, getLastError(err))

\* TextureBuffer::upload2D
upload2D(t, target, range, data, err) ==
  LET numCompressedBytes == getBytesPerRange(range)
      Transfer(texImage) ==
        IF ~data \/ ~isCompressed
        THEN IF texImage
             THEN GLCall("texImage2D", target,
                         <<range.mipLevel, range.width, range.height, 0>>,
                         <<t.fd.internalFormat, t.fd.format, t.fd.type>>, data, range)
             ELSE GLCall("texSubImage2D", target,
                         <<range.mipLevel, range.x, range.y, range.width, range.height>>,
                         <<t.fd.format, t.fd.type>>, data, range)
        ELSE IF texImage
             THEN GLCall("compressedTexImage2D", target,
                         <<range.mipLevel, range.width, range.height, 0, numCompressedBytes>>,
                         <<t.fd.internalFormat>>, data, range)
             ELSE GLCall("compressedTexSubImage2D", t.target,
                         <<range.mipLevel, range.x, range.y, range.width, range.height,
                           numCompressedBytes>>,
                         <<t.fd.internalFormat>>, data, range)
      Checked(result) ==
        IF result # Ok THEN Routine(<<>>, result)
        ELSE Routine(<<Transfer(useTexImage(t, range))>>, getLastError(err))
  IN Checked(validateRange(t, range))

\* Mutant: the range is validated after the transfer was issued
upload2DArray_ValidatesAfter(t, target, range, data, err) ==
  LET numCompressedBytes == getBytesPerRange(range)
      Transfer(texImage) ==
        IF ~data \/ ~isCompressed
        THEN IF texImage
             THEN GLCall("texImage3D", target,
                         <<range.mipLevel, range.width, range.height, range.numLayers, 0>>,
                         <<t.fd.internalFormat, t.fd.format, t.fd.type>>, data, range)
             ELSE GLCall("texSubImage3D", target,
                         <<range.mipLevel, range.x, range.y, range.layer, range.width,
                           range.height, range.numLayers>>,
                         <<t.fd.format, t.fd.type>>, data, range)
        ELSE IF texImage
             THEN GLCall("compressedTexImage3D", target,
                         <<range.mipLevel, range.width, range.height, range.numLayers, 0,
                           numCompressedBytes>>,
                         <<t.fd.internalFormat>>, data, range)
             ELSE GLCall("compressedTexSubImage3D", t.target,
                         <<range.mipLevel, range.x, range.y, range.layer, range.width,
                           range.height, range.numLayers, numCompressedBytes>>,
                         <<t.fd.internalFormat>>, data, range)
      Checked(result) ==
        IF result # Ok THEN Routine(<<Transfer(useTexImage(t, range))>>, result)
        ELSE Routine(<<Transfer(useTexImage(t, range))>>, getLastError(err))
  IN Checked(validateRange(t, range))

\* TextureBuffer::upload2DArray
upload2DArray(t, target, range, data, err) ==
  LET numCompressedBytes == getBytesPerRange(range)
      Transfer(texImage) ==
        IF ~data \/ ~isCompressed
        THEN IF texImage
             THEN GLCall("texImage3D", target,
                         <<range.mipLevel, range.width, range.height, range.numLayers, 0>>,
                         <<t.fd.internalFormat, t.fd.format, t.fd.type>>, data, range)
             ELSE GLCall("texSubImage3D", target,
                         <<range.mipLevel, range.x, range.y, range.layer, range.width,
                           range.height, range.numLayers>>,
                         <<t.fd.format, t.fd.type>>, data, range)
        ELSE IF texImage
             THEN GLCall("compressedTexImage3D", target,
                         <<range.mipLevel, range.width, range.height, range.numLayers, 0,
                           numCompressedBytes>>,
                         <<t.fd.internalFormat>>, data, range)
             ELSE GLCall("compressedTexSubImage3D", t.target,
                         <<range.mipLevel, range.x, range.y, range.layer, range.width,
                           range.height, range.numLayers, numCompressedBytes>>,
                         <<t.fd.internalFormat>>, data, range)
      Checked(result) ==
        IF result # Ok THEN Routine(<<>>, result)
        ELSE Routine(<<Transfer(useTexImage(t, range))>>, getLastError(err))
  IN Checked(validateRange(t, range))

\* Mutant: a compressed resource takes the compressed path also for null data
upload3D_CompressedForNull(t, target, range, data, err) ==
  LET numCompressedBytes == getBytesPerRange(range)
      Transfer(texImage) ==
        IF ~isCompressed
        THEN IF texImage
             THEN GLCall("texImage3D", target,
                         <<range.mipLevel, range.width, range.height, range.depth, 0>>,
                         <<t.fd.internalFormat, t.fd.format, t.fd.type>>, data, range)
             ELSE GLCall("texSubImage3D", target,
                         <<range.mipLevel, range.x, range.y, range.z, range.width,
                           range.height, range.depth>>,
                         <<t.fd.format, t.fd.type>>, data, range)
        ELSE IF texImage
             THEN GLCall("compressedTexImage3D", target,
                         <<range.mipLevel, range.width, range.height, range.depth, 0,
                           numCompressedBytes>>,
                         <<t.fd.internalFormat>>, data, range)
             ELSE GLCall("compressedTexSubImage3D", t.target,
                         <<range.mipLevel, range.x, range.y, range.z, range.width,
                           range.height, range.depth, numCompressedBytes>>,
                         <<t.fd.internalFormat>>, data, range)
      Checked(result) ==
        IF result # Ok THEN Routine(<<>>, result)
        ELSE Routine(<<Transfer(useTexImage(t, range))>>, getLastError(err))
  IN Checked(validateRange(t, range))

\* TextureBuffer::upload3D
upload3D(t, target, range, data, err) ==
  LET numCompressedBytes == getBytesPerRange(range)
      Transfer(texImage) ==
        IF ~data \/ ~isCompressed
        THEN IF texImage
             THEN GLCall("texImage3D", target,
                         <<range.mipLevel, range.width, range.height, range.depth, 0>>,
                         <<t.fd.internalFormat, t.fd.format, t.fd.type>>, data, range)
             ELSE GLCall("texSubImage3D", target,
                         <<range.mipLevel, range.x, range.y, range.z, range.width,
                           range.height, range.depth>>,
                         <<t.fd.format, t.fd.type>>, data, range)
        ELSE IF texImage
             THEN GLCall("compressedTexImage3D", target,
                         <<range.mipLevel, range.width, range.height, range.depth, 0,
                           numCompressedBytes>>,
                         <<t.fd.internalFormat>>, data, range)
             ELSE GLCall("compressedTexSubImage3D", t.target,
                         <<range.mipLevel, range.x, range.y, range.z, range.width,
                           range.height, range.depth, numCompressedBytes>>,
                         <<t.fd.internalFormat>>, data, range)
      Checked(result) ==
        IF result # Ok THEN Routine(<<>>, result)
        ELSE Routine(<<Transfer(useTexImage(t, range))>>, getLastError(err))
  IN Checked(validateRange(t, range))

\* ------------------------------------------------------------ upload dispatch
NumCubeFaces == Len(kCubeFaceTargets)

RECURSIVE CubeFaces(_, _, _, _, _, _)
\* The loop over kCubeFaceTargets in upload(GLenum, ...): faces f..6; the poll
\* after face failAt reports an error.  The first non-Ok result is returned.
CubeFaces(t, range, data, f, failAt, issued) ==
  IF f > NumCubeFaces THEN Routine(issued, Ok)
  ELSE LET Face(result) ==
             IF result.res # Ok THEN Routine(issued \o result.calls, result.res)
             ELSE CubeFaces(t, range, data, f + 1, failAt, issued \o result.calls)
       IN Face(upload2D(t, kCubeFaceTargets[f], range, data, failAt = f))

\* Number of getLastError polls one dispatch can make
PollsPerUpload(t) == IF t.type = "Cube" THEN NumCubeFaces ELSE 1

\* Mutant: a range over several levels is let through
spansSeveralLevels_Never(range) == FALSE

\* "Uploading to more than 1 mip level is not yet supported."
spansSeveralLevels(range) == range.numMipLevels > 1

\* TextureBuffer::upload(GLenum target, range, data, bytesPerRow)
uploadTarget(t, target, range, data, bytesPerRow, failAt) ==
  IF spansSeveralLevels(range) THEN Routine(<<>>, Unimplemented)
  ELSE
    LET pixelStorei ==
          GLCall("pixelStorei", "GL_UNPACK_ALIGNMENT",
                 <<getAlignment(t, bytesPerRow, range.mipLevel)>>, <<>>, FALSE, NoRange)
        After(result) == Routine(<<pixelStorei>> \o result.calls, result.res)
    IN After(CASE t.type = "TwoD" -> upload2D(t, target, range, data, failAt = 1)
               [] t.type = "TwoDArray" ->
                    IF ~hasFeature("Texture2DArray") THEN Routine(<<>>, Unsupported)
                    ELSE upload2DArray(t, target, range, data, failAt = 1)
               [] t.type = "ThreeD" ->
                    IF ~hasFeature("Texture3D") THEN Routine(<<>>, Unsupported)
                    ELSE upload3D(t, target, range, data, failAt = 1)
               [] t.type = "Cube" -> CubeFaces(t, range, data, 1, failAt, <<>>)
               [] OTHER -> Routine(<<>>, InvalidOperation))

bindTexture(target, id) == GLCall("bindTexture", target, <<id>>, <<>>, FALSE, NoRange)

\* Mutant: the binding is left in place when the transfer fails
upload_KeepsBinding(t, range, data, bytesPerRow, failAt) ==
  IF ~data THEN Routine(<<>>, Ok)
  ELSE IF t.target = NoTarget THEN Routine(<<>>, InvalidOperation)
  ELSE LET Bound(result) ==
             Routine(<<bindTexture(t.target, t.id)>> \o result.calls
                       \o (IF result.res = Ok THEN <<bindTexture(t.target, 0)>> ELSE <<>>),
                     result.res)
       IN Bound(uploadTarget(t, t.target, range, data, bytesPerRow, failAt))

\* Mutant: a null data pointer is passed on to the routines
upload_NullAllocates(t, range, data, bytesPerRow, failAt) ==
  IF t.target = NoTarget THEN Routine(<<>>, InvalidOperation)
  ELSE LET Bound(result) ==
             Routine(<<bindTexture(t.target, t.id)>> \o result.calls
                       \o <<bindTexture(t.target, 0)>>,
                     result.res)
       IN Bound(uploadTarget(t, t.target, range, data, bytesPerRow, failAt))

\* TextureBuffer::upload(range, data, bytesPerRow)
upload(t, range, data, bytesPerRow, failAt) ==
  IF ~data THEN Routine(<<>>, Ok)
  ELSE IF t.target = NoTarget THEN Routine(<<>>, InvalidOperation)
  ELSE LET Bound(result) ==
             Routine(<<bindTexture(t.target, t.id)>> \o result.calls
                       \o <<bindTexture(t.target, 0)>>,
                     result.res)
       IN Bound(uploadTarget(t, t.target, range, data, bytesPerRow, failAt))

\* The tail of TextureBuffer::uploadCube, after its early returns: set the
\* alignment, bind, transfer one face, unbind, return Result()
uploadCubeFace(t, range, face, data, bytesPerRow, failAt) ==
  LET pixelStorei ==
        GLCall("pixelStorei", "GL_UNPACK_ALIGNMENT",
               <<getAlignment(t, bytesPerRow, range.mipLevel)>>, <<>>, FALSE, NoRange)
      result == upload2D(t, kCubeFaceTargets[face], range, data, failAt = 1)
  IN Routine(<<pixelStorei, bindTexture(t.target, t.id)>> \o result.calls
               \o <<bindTexture(t.target, 0)>>,
             Ok)

\* Mutant: the target is not checked
uploadCube_NoTargetCheck(t, range, face, data, bytesPerRow, failAt) ==
  IF ~data THEN Routine(<<>>, Ok)
  ELSE IF spansSeveralLevels(range) THEN Routine(<<>>, Unimplemented)
  ELSE uploadCubeFace(t, range, face, data, bytesPerRow, failAt)

\* Mutant: the alignment is set and the resource bound before the target check
uploadCube_BindsFirst(t, range, face, data, bytesPerRow, failAt) ==
  IF ~data THEN Routine(<<>>, Ok)
  ELSE IF spansSeveralLevels(range) THEN Routine(<<>>, Unimplemented)
  ELSE IF t.target # GL_TEXTURE_CUBE_MAP
  THEN Routine(<<GLCall("pixelStorei", "GL_UNPACK_ALIGNMENT", <<1>>, <<>>, FALSE, NoRange),
                 bindTexture(t.target, t.id), bindTexture(t.target, 0)>>,
               InvalidOperation)
  ELSE uploadCubeFace(t, range, face, data, bytesPerRow, failAt)

\* TextureBuffer::uploadCube(range, face, data, bytesPerRow); face is 1..6
uploadCube(t, range, face, data, bytesPerRow, failAt) ==
  IF ~data THEN Routine(<<>>, Ok)
  ELSE IF spansSeveralLevels(range) THEN Routine(<<>>, Unimplemented)
  ELSE IF t.target # GL_TEXTURE_CUBE_MAP THEN Routine(<<>>, InvalidOperation)
  ELSE uploadCubeFace(t, range, face, data, bytesPerRow, failAt)

\* The Result of the face transfer inside uploadCube (its local `result`)
uploadCubeFaceResult(t, range, face, data, failAt) ==
  IF ~data \/ spansSeveralLevels(range) \/ t.target # GL_TEXTURE_CUBE_MAP THEN "NotReached"
  ELSE upload2D(t, kCubeFaceTargets[face], range, data, failAt = 1).res

\* ------------------------------------------------------------- initialization
texParameteri(target, pname, value) ==
  GLCall("texParameteri", target, <<>>, <<pname, value>>, FALSE, NoRange)

\* Mutant: the channels are remapped whatever the format and the device
swapTextureChannelsForFormat_Always(target, iglFormat) ==
  <<texParameteri(target, "GL_TEXTURE_SWIZZLE_R", "GL_ZERO"),
    texParameteri(target, "GL_TEXTURE_SWIZZLE_G", "GL_ZERO"),
    texParameteri(target, "GL_TEXTURE_SWIZZLE_B", "GL_ZERO"),
    texParameteri(target, "GL_TEXTURE_SWIZZLE_A", "GL_RED")>>

\* swapTextureChannelsForFormat(context, target, iglFormat)
swapTextureChannelsForFormat(target, iglFormat) ==
  IF iglFormat = "A_UNorm8" /\ hasFeature("SwizzleAlphaTexturesReq")
  THEN <<texParameteri(target, "GL_TEXTURE_SWIZZLE_R", "GL_ZERO"),
         texParameteri(target, "GL_TEXTURE_SWIZZLE_G", "GL_ZERO"),
         texParameteri(target, "GL_TEXTURE_SWIZZLE_B", "GL_ZERO"),
         texParameteri(target, "GL_TEXTURE_SWIZZLE_A", "GL_RED")>>
  ELSE <<>>

\* Texture::setMaxMipLevel
setMaxMipLevel(t) ==
  <<GLCall("texParameteri", t.target, <<t.numMipLevels - 1>>, <<"GL_TEXTURE_MAX_LEVEL">>,
           FALSE, NoRange)>>

RECURSIVE MipLevels(_, _, _, _)
\* The loop of TextureBuffer::initializeWithUpload over levels i..N-1
MipLevels(t, i, failAt, issued) ==
  IF i >= t.numMipLevels THEN Routine(issued, Ok)
  ELSE LET Level(result) ==
             IF result.res # Ok THEN Routine(issued \o result.calls, result.res)
             ELSE MipLevels(t, i + 1, failAt, issued \o result.calls)
       IN Level(uploadTarget(t, t.target, getFullRange(t, i, 1), FALSE, 0,
                             failAt - i * PollsPerUpload(t)))

\* Mutant: the loop goes on over the remaining levels after a failure and
\* returns the first failure at its end
initializeWithUpload_AllLevels(t, failAt) ==
  Routine(MipLevels(t, 0, 0, <<>>).calls, MipLevels(t, 0, failAt, <<>>).res)

\* TextureBuffer::initializeWithUpload
initializeWithUpload(t, failAt) == MipLevels(t, 0, failAt, <<>>)

\* Mutant: storage is reserved for the first level only
initializeWithTexStorage_FirstLevelOnly(t, ifmt, failAt) ==
  LET Reserve(range) ==
        CASE t.type \in {"TwoD", "Cube"} ->
               Routine(<<GLCall("texStorage2D", t.target,
                                <<range.numMipLevels, range.width, range.height>>,
                                <<ifmt>>, FALSE, range)>>,
                       getLastError(failAt = 1))
          [] t.type = "TwoDArray" ->
               Routine(<<GLCall("texStorage3D", t.target,
                                <<range.numMipLevels, range.width, range.height,
                                  range.numLayers>>,
                                <<ifmt>>, FALSE, range)>>,
                       getLastError(failAt = 1))
          [] t.type = "ThreeD" ->
               Routine(<<GLCall("texStorage3D", t.target,
                                <<range.numMipLevels, range.width, range.height, range.depth>>,
                                <<ifmt>>, FALSE, range)>>,
                       getLastError(failAt = 1))
          [] OTHER -> Routine(<<>>, InvalidOperation)
  IN Reserve(getFullRange(t, 0, 1))

\* TextureBuffer::initializeWithTexStorage
initializeWithTexStorage(t, ifmt, failAt) ==
  LET Reserve(range) ==
        CASE t.type \in {"TwoD", "Cube"} ->
               Routine(<<GLCall("texStorage2D", t.target,
                                <<range.numMipLevels, range.width, range.height>>,
                                <<ifmt>>, FALSE, range)>>,
                       getLastError(failAt = 1))
          [] t.type = "TwoDArray" ->
               Routine(<<GLCall("texStorage3D", t.target,
                                <<range.numMipLevels, range.width, range.height,
                                  range.numLayers>>,
                                <<ifmt>>, FALSE, range)>>,
                       getLastError(failAt = 1))
          [] t.type = "ThreeD" ->
               Routine(<<GLCall("texStorage3D", t.target,
                                <<range.numMipLevels, range.width, range.height, range.depth>>,
                                <<ifmt>>, FALSE, range)>>,
                       getLastError(failAt = 1))
          [] OTHER -> Routine(<<>>, InvalidOperation)
  IN Reserve(getFullRange(t, 0, t.numMipLevels))

\* Which allocation TextureBuffer::initialize selects
initPath(t) ==
  IF t.target = NoTarget \/ ~canInitialize(t) THEN "None"
  ELSE IF ~supportsTexStorage(t) THEN "Mutable" ELSE "Immutable"

\* TextureBuffer::initialize between its bind and its unbind
initializeBound(t, ifmt, failAt) ==
  LET Prepared(result) ==
        Routine(setMaxMipLevel(t)
                  \o (IF t.numMipLevels = 1
                      THEN <<texParameteri(t.target, "GL_TEXTURE_MIN_FILTER", "GL_NEAREST")>>
                      ELSE <<>>)
                  \o (IF ~isCompressed THEN swapTextureChannelsForFormat(t.target, format_)
                      ELSE <<>>)
                  \o result.calls,
                result.res)
  IN Prepared(IF canInitialize(t)
              THEN IF ~supportsTexStorage(t) THEN initializeWithUpload(t, failAt)
                   ELSE initializeWithTexStorage(t, ifmt, failAt)
              ELSE Routine(<<>>, Ok))

\* Mutant: a failed initialization returns at once, the resource still bound
initialize_ReturnsBound(t, ifmt, failAt) ==
  IF t.target = NoTarget THEN Routine(<<>>, InvalidOperation)
  ELSE LET Bound(result) ==
             Routine(<<bindTexture(t.target, t.id)>> \o result.calls
                       \o (IF result.res = Ok THEN <<bindTexture(t.target, 0)>> ELSE <<>>),
                     result.res)
       IN Bound(initializeBound(t, ifmt, failAt))

\* TextureBuffer::initialize
initialize(t, ifmt, failAt) ==
  IF t.target = NoTarget THEN Routine(<<>>, InvalidOperation)
  ELSE LET Bound(result) ==
             Routine(<<bindTexture(t.target, t.id)>> \o result.calls
                       \o <<bindTexture(t.target, 0)>>,
                     result.res)
       IN Bound(initializeBound(t, ifmt, failAt))

\* Largest number of polls an initialization can make
MaxInitPolls == MaxMipLevels * NumCubeFaces

\* ------------------------------------------------------------------- creation
\* What a create call leaves behind: Result, the fields it wrote, the calls
Created(res, id, target, usage, fd, ifmt, calls_, init) ==
  [res |-> res, id |-> id, target |-> target, usage |-> usage, fd |-> fd, ifmt |-> ifmt,
   calls |-> calls_, init |-> init]

genTextures(newId) == GLCall("genTextures", NoTarget, <<newId>>, <<>>, FALSE, NoRange)

\* Mutant: the descriptor's usage is handed to the catalog as it is
usageForFormat_Unchanged(desc) == desc.usage

\* "If usage doesn't include Storage, ensure usage includes sampled for correct
\* format selection"
usageForFormat(desc) ==
  IF "Storage" \notin desc.usage THEN desc.usage \cup {"Sampled"} ELSE desc.usage

\* Mutant: the catalog's answer is not checked
createTextureChecks_IgnoresCatalog(desc) ==
  LET target == toGLTarget(desc.type)
      resolved == toFormatDescGL(desc.format, usageForFormat(desc))
  IN IF target = NoTarget THEN Unsupported
     ELSE IF resolved.ok /\ ~isCompressed /\ resolved.fd.type = "GL_NONE" THEN ArgumentInvalid
     ELSE IF "Storage" \in desc.usage /\ ~hasFeature("TexStorage") THEN Unsupported
     ELSE Ok

\* Mutant: Storage usage is accepted without immutable-storage support
createTextureChecks_IgnoresTexStorage(desc) ==
  LET target == toGLTarget(desc.type)
      resolved == toFormatDescGL(desc.format, usageForFormat(desc))
  IN IF target = NoTarget THEN Unsupported
     ELSE IF ~resolved.ok THEN ArgumentInvalid
     ELSE IF ~isCompressed /\ resolved.fd.type = "GL_NONE" THEN ArgumentInvalid
     ELSE Ok

\* Mutant: a type without a backend target is let through
createTextureChecks_IgnoresTarget(desc) ==
  LET resolved == toFormatDescGL(desc.format, usageForFormat(desc))
  IN IF ~resolved.ok THEN ArgumentInvalid
     ELSE IF ~isCompressed /\ resolved.fd.type = "GL_NONE" THEN ArgumentInvalid
     ELSE IF "Storage" \in desc.usage /\ ~hasFeature("TexStorage") THEN Unsupported
     ELSE Ok

\* The checks of TextureBuffer::createTexture that precede genTextures: the
\* Result of the first one that fails, Ok when all pass
createTextureChecks(desc) ==
  LET target == toGLTarget(desc.type)
      resolved == toFormatDescGL(desc.format, usageForFormat(desc))
  IN IF target = NoTarget THEN Unsupported
     ELSE IF ~resolved.ok THEN ArgumentInvalid
     ELSE IF ~isCompressed /\ resolved.fd.type = "GL_NONE" THEN ArgumentInvalid
     ELSE IF "Storage" \in desc.usage /\ ~hasFeature("TexStorage") THEN Unsupported
     ELSE Ok

\* Mutant: an external image is initialized like every other type
createTexture_AlwaysInitializes(desc, newId, failAt) ==
  LET Initialized(init, target, fd) ==
        Created(init.res, newId, target, desc.usage, fd, fd.internalFormat,
                <<genTextures(newId)>> \o init.calls, init.res)
      Allocate(target, fd) ==
        Initialized(initialize(TexView(newId, target, desc.type, desc.usage,
                                       desc.numMipLevels, fd),
                               fd.internalFormat, failAt),
                    target, fd)
      Checked(checks, target, resolved) ==
        IF checks # Ok
        THEN Created(checks, 0, NoTarget, usage_,
                     IF target # NoTarget /\ resolved.ok THEN resolved.fd ELSE formatDescGL_,
                     glInternalFormat_, <<>>, "NotRun")
        ELSE Allocate(target, resolved.fd)
  IN Checked(createTextureChecks(desc), toGLTarget(desc.type),
             toFormatDescGL(desc.format, usageForFormat(desc)))

\* TextureBuffer::createTexture; newId is the id genTextures hands out
createTexture(desc, newId, failAt) ==
  LET \* initialize() has returned init
      Initialized(init, target, fd) ==
        Created(init.res, newId, target, desc.usage, fd, fd.internalFormat,
                <<genTextures(newId)>> \o init.calls, init.res)
      \* the checks have passed: genTextures, setTextureBufferProperties, setUsage
      Allocate(target, fd) ==
        IF desc.type = "ExternalImage"
        THEN Created(Ok, newId, target, desc.usage, fd, fd.internalFormat,
                     <<genTextures(newId)>>, "NotRun")
        ELSE Initialized(initialize(TexView(newId, target, desc.type, desc.usage,
                                            desc.numMipLevels, fd),
                                    fd.internalFormat, failAt),
                         target, fd)
      \* formatDescGL_ is written as soon as the catalog resolves the format
      Checked(checks, target, resolved) ==
        IF checks # Ok
        THEN Created(checks, 0, NoTarget, usage_,
                     IF target # NoTarget /\ resolved.ok THEN resolved.fd ELSE formatDescGL_,
                     glInternalFormat_, <<>>, "NotRun")
        ELSE Allocate(target, resolved.fd)
  IN Checked(createTextureChecks(desc), toGLTarget(desc.type),
             toFormatDescGL(desc.format, usageForFormat(desc)))

\* Mutant: every usage without Sampled and Storage is refused, whatever the
\* type and the mip count
create_RefusesByUsageAlone(desc, newId, failAt) ==
  LET isSampledOrStorage == desc.usage \cap {"Sampled", "Storage"} # {}
  IN IF isSampledOrStorage
     THEN createTexture(desc, newId, failAt)
     ELSE Created(Unsupported, 0, NoTarget, usage_, formatDescGL_, glInternalFormat_,
                  <<>>, "NotRun")

\* TextureBuffer::create (Texture::create has recorded the descriptor and is Ok)
create(desc, newId, failAt) ==
  LET isSampledOrStorage == desc.usage \cap {"Sampled", "Storage"} # {}
  IN IF isSampledOrStorage \/ desc.type # "TwoD" \/ desc.numMipLevels > 1
     THEN createTexture(desc, newId, failAt)
     ELSE Created(Unsupported, 0, NoTarget, usage_, formatDescGL_, glInternalFormat_,
                  <<>>, "NotRun")

\* ------------------------------------------------- handle and destruction
\* TextureBuffer::getTextureId; h is what getTextureHandle returns if asked
getTextureId(h) ==
  IF textureHandle_ = 0
  THEN [calls |-> <<GLCall("getTextureHandle", NoTarget, <<textureID_>>, <<>>, FALSE, NoRange),
                    GLCall("makeTextureHandleResident", NoTarget, <<h>>, <<>>, FALSE, NoRange)>>,
        handle |-> h]
  ELSE [calls |-> <<>>, handle |-> textureHandle_]

\* Mutant: the object is deleted before its handle is released
destroy_DeletesFirst ==
  IF textureID_ # 0
  THEN <<GLCall("deleteTextures", NoTarget, <<textureID_>>, <<>>, FALSE, NoRange)>>
       \o (IF textureHandle_ # 0
           THEN <<GLCall("makeTextureHandleNonResident", NoTarget, <<textureHandle_>>, <<>>,
                         FALSE, NoRange)>>
           ELSE <<>>)
  ELSE <<>>

\* TextureBuffer::~TextureBuffer
destroy ==
  IF textureID_ # 0
  THEN (IF textureHandle_ # 0
        THEN <<GLCall("makeTextureHandleNonResident", NoTarget, <<textureHandle_>>, <<>>,
                      FALSE, NoRange)>>
        ELSE <<>>)
       \o <<GLCall("deleteTextures", NoTarget, <<textureID_>>, <<>>, FALSE, NoRange)>>
  ELSE <<>>

\* ------------------------------------------------------------- context state
\* Index of the last call to fn (on target, unless target is NoTarget); 0 if none
LastCall(cs, fn, target) ==
  LET idx == {i \in DOMAIN cs : cs[i].fn = fn /\ cs[i].target = target}
  IN IF idx = {} THEN 0 ELSE CHOOSE i \in idx : \A j \in idx : j <= i

\* IContext::bindTexture replayed over the calls
BoundAfter(b, cs) ==
  [tg \in BindTargets |->
     LET i == LastCall(cs, "bindTexture", tg) IN IF i = 0 THEN b[tg] ELSE cs[i].args[1]]

\* IContext::pixelStorei(GL_UNPACK_ALIGNMENT, ..) replayed over the calls
UnpackAfter(u, cs) ==
  LET i == LastCall(cs, "pixelStorei", "GL_UNPACK_ALIGNMENT")
  IN IF i = 0 THEN u ELSE cs[i].args[1]

CountCalls(cs, fns) == Cardinality({i \in DOMAIN cs : cs[i].fn \in fns})

StorageFns == {"texStorage2D", "texStorage3D"}
ImageFns ==
  {"texImage1D", "texImage2D", "texImage3D",
   "compressedTexImage1D", "compressedTexImage2D", "compressedTexImage3D"}
SubImageFns ==
  {"texSubImage1D", "texSubImage2D", "texSubImage3D",
   "compressedTexSubImage1D", "compressedTexSubImage2D", "compressedTexSubImage3D"}
TransferFns == ImageFns \cup SubImageFns

\* A texParameteri call that sets one of the four channel-remap parameters
SwizzleParams ==
  {"GL_TEXTURE_SWIZZLE_R", "GL_TEXTURE_SWIZZLE_G", "GL_TEXTURE_SWIZZLE_B",
   "GL_TEXTURE_SWIZZLE_A"}
IsSwizzle(c) == c.fn = "texParameteri" /\ Len(c.tags) = 2 /\ c.tags[1] \in SwizzleParams

\* Lifetime counts of backend calls, advanced by the calls of one operation
HistAfter(h, cs) ==
  [h EXCEPT !.gen = @ + CountCalls(cs, {"genTextures"}),
            !.del = @ + CountCalls(cs, {"deleteTextures"}),
            !.resolve = @ + CountCalls(cs, {"getTextureHandle"}),
            !.resident = @ + CountCalls(cs, {"makeTextureHandleResident"}),
            !.nonResident = @ + CountCalls(cs, {"makeTextureHandleNonResident"}),
            !.storage = @ + CountCalls(cs, StorageFns),
            !.swizzle = @ + Len(SelectSeq(cs, IsSwizzle))]

\* --------------------------------------------------------------------- inputs
\* Callers pass 0 (rows tightly packed) as the bytesPerRow hint
BytesPerRowHints == {0}

\* Ranges offered to upload and uploadCube: the full extent of each of the first
\* MaxMipLevels levels (past the chain for a shorter resource); at level 0 also
\* a partial region in each coordinate that has room, a region past the right
\* edge, an empty region (width 0), and the full extent declared over two levels.
RangeInputs(t) ==
  LET Around(f) ==
        {[f EXCEPT !.numMipLevels = 2], [f EXCEPT !.x = 1], [f EXCEPT !.width = 0]}
          \cup (IF f.width > 1 THEN {[f EXCEPT !.x = 1, !.width = f.width - 1]} ELSE {})
          \cup (IF f.height > 1 THEN {[f EXCEPT !.height = f.height - 1]} ELSE {})
          \cup (IF f.depth > 1 THEN {[f EXCEPT !.z = 1, !.depth = f.depth - 1]} ELSE {})
          \cup (IF f.numLayers > 1
                THEN {[f EXCEPT !.layer = 1, !.numLayers = f.numLayers - 1]} ELSE {})
  IN {getFullRange(t, m, 1) : m \in 0..(MaxMipLevels - 1)} \cup Around(getFullRange(t, 0, 1))

\* Number of getLastError polls an upload call can reach: none when it returns
\* before the routines or when the range fails validation
UploadPolls(t, range, data) ==
  IF data /\ t.target # NoTarget /\ range.numMipLevels <= 1
       /\ validateRange(t, range) = Ok
  THEN PollsPerUpload(t) ELSE 0

\* uploadCube reaches its face transfer (and reads face) only in this case
UploadCubeReaches(t, range, data) ==
  data /\ range.numMipLevels <= 1 /\ t.target = GL_TEXTURE_CUBE_MAP

UploadCubePolls(t, range, data) ==
  IF UploadCubeReaches(t, range, data) /\ validateRange(t, range) = Ok THEN 1 ELSE 0

\* Faces offered to uploadCube: all six when the face is read, one otherwise
FaceInputs(t, range, data) ==
  IF UploadCubeReaches(t, range, data) THEN 1..NumCubeFaces ELSE {1}

\* ------------------------------------------------------------------ the model
NoRet == [op |-> "none", res |-> Ok, inner |-> "NotReached", data |-> FALSE,
          numMipLevels |-> 0, value |-> 0]

\* An ImageLoaderAndroid on which loadImageData was not called yet
NoLoader ==
  [assetManager_ |-> FALSE, loads |-> 0, opened |-> 0, closed |-> 0, imageName |-> "",
   calls |-> <<>>, result |-> [kind |-> "None", length |-> 0]]

Init ==
  /\ texDesc \in TextureDescs
  /\ features \in SUBSET ConsultedFeatures(texDesc)
  /\ loader = NoLoader
  /\ format_ = texDesc.format
  /\ phase = "new"
  /\ type_ = "Invalid"
  /\ numMipLevels_ = 0
  /\ usage_ = {}
  /\ textureID_ = 0
  /\ target_ = NoTarget
  /\ formatDescGL_ = NoFormatDescGL
  /\ glInternalFormat_ = "GL_NONE"
  /\ textureHandle_ = 0
  /\ bound = [tg \in BindTargets |-> 0]
  /\ unpackAlignment = 4
  /\ calls = <<>>
  /\ ret = NoRet
  /\ hist = [gen |-> 0, del |-> 0, resolve |-> 0, resident |-> 0, nonResident |-> 0,
             storage |-> 0, swizzle |-> 0, getCalls |-> 0, returned |-> {}, alloc |-> "None",
             init |-> "NotRun"]

\* The context and the lifetime counts after an operation that issued cs
Issue(cs) ==
  /\ calls' = cs
  /\ bound' = BoundAfter(bound, cs)
  /\ unpackAlignment' = UnpackAfter(unpackAlignment, cs)

\* create(desc): one call on a new resource
Create ==
  \E failAt \in 0..MaxInitPolls :
    \E c \in {create(texDesc, hist.gen + 1, failAt)} :
    LET t == TexView(c.id, c.target, texDesc.type, c.usage, texDesc.numMipLevels, c.fd)
    IN /\ phase = "new"
       /\ phase' = "created"
       /\ type_' = texDesc.type
       /\ numMipLevels_' = texDesc.numMipLevels
       /\ usage_' = c.usage
       /\ textureID_' = c.id
       /\ target_' = c.target
       /\ formatDescGL_' = c.fd
       /\ glInternalFormat_' = c.ifmt
       /\ Issue(c.calls)
       /\ ret' = [NoRet EXCEPT !.op = "create", !.res = c.res, !.inner = c.init]
       /\ hist' = [HistAfter(hist, c.calls) EXCEPT
                     !.init = c.init,
                     !.alloc = IF c.init = "NotRun" THEN "None" ELSE initPath(t)]
       /\ UNCHANGED <<loader, features, texDesc, format_, textureHandle_>>

\* upload(range, data, bytesPerRow)
Upload ==
  \E range \in RangeInputs(Tex), data \in BOOLEAN, bytesPerRow \in BytesPerRowHints :
    \E failAt \in 0..UploadPolls(Tex, range, data) :
      \E r \in {upload(Tex, range, data, bytesPerRow, failAt)} :
        /\ phase = "created"
        /\ Issue(r.calls)
        /\ ret' = [NoRet EXCEPT !.op = "upload", !.res = r.res, !.inner = r.res,
                                 !.data = data, !.numMipLevels = range.numMipLevels]
        /\ hist' = HistAfter(hist, r.calls)
        /\ UNCHANGED <<loader, features, texDesc, format_, phase, type_, numMipLevels_, usage_,
                       textureID_, target_, formatDescGL_, glInternalFormat_,
                       textureHandle_>>

\* uploadCube(range, face, data, bytesPerRow)
UploadCube ==
  \E range \in RangeInputs(Tex), data \in BOOLEAN, bytesPerRow \in BytesPerRowHints :
    \E face \in FaceInputs(Tex, range, data),
       failAt \in 0..UploadCubePolls(Tex, range, data) :
      \E r \in {uploadCube(Tex, range, face, data, bytesPerRow, failAt)} :
        /\ phase = "created"
        /\ Issue(r.calls)
        /\ ret' = [NoRet EXCEPT
                     !.op = "uploadCube", !.res = r.res,
                     !.inner = uploadCubeFaceResult(Tex, range, face, data, failAt),
                     !.data = data, !.numMipLevels = range.numMipLevels]
        /\ hist' = HistAfter(hist, r.calls)
        /\ UNCHANGED <<loader, features, texDesc, format_, phase, type_, numMipLevels_, usage_,
                       textureID_, target_, formatDescGL_, glInternalFormat_,
                       textureHandle_>>

\* getTextureId()
GetTextureId ==
  \E h \in 0..MaxHandle :
    \E g \in {getTextureId(h)} :
       /\ phase \in {"new", "created"}
       /\ hist.getCalls < MaxGetCalls
       /\ textureHandle_' = g.handle
       /\ Issue(g.calls)
       /\ ret' = [NoRet EXCEPT !.op = "getTextureId", !.value = g.handle]
       /\ hist' = [HistAfter(hist, g.calls) EXCEPT
                     !.getCalls = @ + 1, !.returned = @ \cup {g.handle}]
       /\ UNCHANGED <<loader, features, texDesc, format_, phase, type_, numMipLevels_, usage_, textureID_,
                      target_, formatDescGL_, glInternalFormat_>>

\* ~TextureBuffer()
Destroy ==
  /\ phase \in {"new", "created"}
  /\ phase' = "destroyed"
  /\ Issue(destroy)
  /\ ret' = [NoRet EXCEPT !.op = "destroy"]
  /\ hist' = HistAfter(hist, destroy)
  /\ UNCHANGED <<loader, features, texDesc, format_, type_, numMipLevels_, usage_, textureID_, target_,
                 formatDescGL_, glInternalFormat_, textureHandle_>>

\* Creation, uploads and destruction of one resource
Next == Create \/ Upload \/ UploadCube \/ Destroy

Spec == Init /\ [][Next]_vars

\* Creation, handle resolution and destruction of one resource.  getTextureId
\* reads and writes only textureHandle_ and the uploads never touch it, so the
\* two families of calls are followed in separate specifications.
NextHandle == Create \/ GetTextureId \/ Destroy

SpecHandle == Init /\ [][NextHandle]_vars

\* ------------------------------------------------------- ImageLoaderAndroid
\* One call of the asset API: asset is the AAsset* it returns or is given
\* (0 = nullptr), value what AAsset_getLength64 / AAsset_read return
AssetCall(fn, asset, value) == [fn |-> fn, asset |-> asset, value |-> value]

ImageData(kind, length) == [kind |-> kind, length |-> length]

\* Mutant: the oversized path returns without closing the asset
loadImageData_LeaksOversized(assetManager, imageName, asset, length, readSize) ==
  IF imageName = "" THEN [calls |-> <<>>, result |-> ImageData("Empty", 0)]
  ELSE IF ~assetManager THEN [calls |-> <<>>, result |-> ImageData("Fallback", 0)]
  ELSE IF asset = 0
  THEN [calls |-> <<AssetCall("AAssetManager_open", 0, 0)>>,
        result |-> ImageData("Empty", 0)]
  ELSE IF length > IntMax
  THEN [calls |-> <<AssetCall("AAssetManager_open", asset, 0),
                    AssetCall("AAsset_getLength64", asset, length)>>,
        result |-> ImageData("Empty", 0)]
  ELSE [calls |-> <<AssetCall("AAssetManager_open", asset, 0),
                    AssetCall("AAsset_getLength64", asset, length),
                    AssetCall("AAsset_read", asset, readSize),
                    AssetCall("AAsset_close", asset, 0)>>,
        result |-> ImageData("FromMemory", length)]

\* ImageLoaderAndroid::loadImageData(imageName).  assetManager is TRUE for a
\* non-null assetManager_; asset, length and readSize are what
\* AAssetManager_open, AAsset_getLength64 and AAsset_read return.  The result
\* is an empty ImageData, that of ImageLoader::loadImageData (Fallback), or
\* that of loadImageDataFromMemory over length bytes.
loadImageData(assetManager, imageName, asset, length, readSize) ==
  IF imageName = "" THEN [calls |-> <<>>, result |-> ImageData("Empty", 0)]
  ELSE IF ~assetManager THEN [calls |-> <<>>, result |-> ImageData("Fallback", 0)]
  ELSE IF asset = 0
  THEN [calls |-> <<AssetCall("AAssetManager_open", 0, 0)>>,
        result |-> ImageData("Empty", 0)]
  ELSE IF length > IntMax
  THEN [calls |-> <<AssetCall("AAssetManager_open", asset, 0),
                    AssetCall("AAsset_getLength64", asset, length),
                    AssetCall("AAsset_close", asset, 0)>>,
        result |-> ImageData("Empty", 0)]
  ELSE [calls |-> <<AssetCall("AAssetManager_open", asset, 0),
                    AssetCall("AAsset_getLength64", asset, length),
                    AssetCall("AAsset_read", asset, readSize),
                    AssetCall("AAsset_close", asset, 0)>>,
        result |-> ImageData("FromMemory", length)]

ImageNames == {"", "image.png"}

\* The assets a call opened, and the assets it closed
IsOpened(c) == c.fn = "AAssetManager_open" /\ c.asset # 0
IsClosed(c) == c.fn = "AAsset_close"

\* A loader with or without an asset manager; no texture is involved
InitLoader ==
  /\ texDesc = [type |-> "TwoD", format |-> "RGBA_UNorm8", usage |-> {"Sampled"},
                numMipLevels |-> 1]
  /\ features = {}
  /\ loader \in {[NoLoader EXCEPT !.assetManager_ = m] : m \in BOOLEAN}
  /\ format_ = texDesc.format
  /\ phase = "new"
  /\ type_ = "Invalid"
  /\ numMipLevels_ = 0
  /\ usage_ = {}
  /\ textureID_ = 0
  /\ target_ = NoTarget
  /\ formatDescGL_ = NoFormatDescGL
  /\ glInternalFormat_ = "GL_NONE"
  /\ textureHandle_ = 0
  /\ bound = [tg \in BindTargets |-> 0]
  /\ unpackAlignment = 4
  /\ calls = <<>>
  /\ ret = NoRet
  /\ hist = [gen |-> 0, del |-> 0, resolve |-> 0, resident |-> 0, nonResident |-> 0,
             storage |-> 0, swizzle |-> 0, getCalls |-> 0, returned |-> {}, alloc |-> "None",
             init |-> "NotRun"]

\* loadImageData(imageName): the asset manager opens the asset or fails to, the
\* asset reports a length up to one past IntMax, the read returns an error
\* (-1) or any count up to the length
Load ==
  \E imageName \in ImageNames, openOk \in BOOLEAN, length \in 0..(IntMax + 1) :
    \E readSize \in -1..(IF length > IntMax THEN -1 ELSE length) :
      \E r \in {loadImageData(loader.assetManager_, imageName,
                              IF openOk THEN loader.opened + 1 ELSE 0, length, readSize)} :
        /\ loader.loads < MaxLoads
        /\ loader' = [loader EXCEPT
                        !.loads = @ + 1,
                        !.opened = @ + Len(SelectSeq(r.calls, IsOpened)),
                        !.closed = @ + Len(SelectSeq(r.calls, IsClosed)),
                        !.imageName = imageName,
                        !.calls = r.calls,
                        !.result = r.result]
        /\ UNCHANGED <<features, texDesc, format_, phase, type_, numMipLevels_, usage_,
                       textureID_, target_, formatDescGL_, glInternalFormat_,
                       textureHandle_, bound, unpackAlignment, calls, ret, hist>>

NextLoader == Load

\* Calls of loadImageData on one loader
SpecLoader == InitLoader /\ [][NextLoader]_vars

\* ===================================================================== claims
\* create has been called: Texture::create recorded the descriptor's type
CreateCalled == type_ # "Invalid"
IsTransfer(c) == c.fn \in TransferFns
NoTransfer(cs) == \A i \in DOMAIN cs : ~IsTransfer(cs[i])
AllUnbound == \A tg \in BindTargets : bound[tg] = 0

RoutineNames == {"upload1D", "upload1DArray", "upload2D", "upload2DArray", "upload3D"}

RunRoutine(name, t, target, range, data, err) ==
  CASE name = "upload1D" -> upload1D(t, target, range, data, err)
    [] name = "upload1DArray" -> upload1DArray(t, target, range, data, err)
    [] name = "upload2D" -> upload2D(t, target, range, data, err)
    [] name = "upload2DArray" -> upload2DArray(t, target, range, data, err)
    [] name = "upload3D" -> upload3D(t, target, range, data, err)

\* C1: on a resource that initialization allocated Mutable or Immutable, each of
\* the five routines (upload2D also serves the cube faces), for every offered
\* range that passes validation and for null and non-null data, issues exactly
\* one transfer call, and that call is an image-replace iff the range covers
\* the full extent of its level and the allocation was Mutable, a
\* sub-image-replace otherwise; the same holds of every transfer call the most
\* recent operation actually issued.
C1_PathSelection ==
  hist.alloc \in {"Mutable", "Immutable"} =>
    /\ \A name \in RoutineNames, range \in RangeInputs(Tex), data \in BOOLEAN :
         validateRange(Tex, range) = Ok =>
           LET r == RunRoutine(name, Tex, target_, range, data, FALSE)
               full == isValidForTexImage(Tex, range)
           IN /\ Len(r.calls) = 1
              /\ IF full /\ hist.alloc = "Mutable"
                 THEN r.calls[1].fn \in ImageFns
                 ELSE r.calls[1].fn \in SubImageFns
    /\ \A i \in DOMAIN calls :
         IsTransfer(calls[i]) =>
           (calls[i].fn \in ImageFns
              <=> (isValidForTexImage(Tex, calls[i].rng) /\ hist.alloc = "Mutable"))

\* C1 witness: an upload of data to the full extent of a Mutable resource went
\* through image-replace
C1_Witness ==
  /\ ret.op = "upload" /\ ret.data /\ hist.alloc = "Mutable"
  /\ \E i \in DOMAIN calls : calls[i].fn \in ImageFns /\ calls[i].data

\* C2: whenever create, upload or uploadCube has returned, with any Result, no
\* texture is bound to any target of the context.
C2_BindingRestored == AllUnbound

\* C2 witness: an upload bound the resource, failed, and left nothing bound
C2_Witness ==
  /\ ret.op = "upload" /\ ret.res # Ok
  /\ \E i \in DOMAIN calls : calls[i].fn = "bindTexture" /\ calls[i].args[1] = textureID_
  /\ textureID_ # 0 /\ AllUnbound

\* C3 as claimed: upload with range.numMipLevels > 1 always returns
\* Unimplemented and issues no transfer call.
C3_AlwaysUnimplemented ==
  (ret.op = "upload" /\ ret.numMipLevels > 1) =>
    (ret.res = Unimplemented /\ NoTransfer(calls))

\* C3 as amended: upload with range.numMipLevels > 1 issues no transfer call;
\* it returns Ok when data is null, InvalidOperation when data is non-null and
\* the resource has no target, and Unimplemented otherwise.
C3_MultiLevelUpload ==
  (ret.op = "upload" /\ ret.numMipLevels > 1) =>
    /\ NoTransfer(calls)
    /\ ret.res = (IF ~ret.data THEN Ok
                  ELSE IF target_ = NoTarget THEN InvalidOperation
                  ELSE Unimplemented)

\* C3 witness: a multi-level upload of data to a created resource was refused
C3_Witness ==
  /\ ret.op = "upload" /\ ret.numMipLevels > 1 /\ ret.data
  /\ target_ # NoTarget /\ ret.res = Unimplemented

\* C4 as claimed: uploadCube on a resource that is not a Cube returns
\* InvalidOperation for every range, face and data argument.
C4_AlwaysInvalidOperation ==
  (ret.op = "uploadCube" /\ type_ # "Cube") => ret.res = InvalidOperation

\* C4 as amended: uploadCube on a resource that is not a Cube returns
\* InvalidOperation when data is non-null and range.numMipLevels <= 1; it
\* returns Ok when data is null and Unimplemented when data is non-null and
\* range.numMipLevels > 1.
C4_NonCubeUploadCube ==
  (ret.op = "uploadCube" /\ type_ # "Cube") =>
    ret.res = (IF ~ret.data THEN Ok
               ELSE IF ret.numMipLevels > 1 THEN Unimplemented
               ELSE InvalidOperation)

\* C4 witness: uploadCube with data on a created 2D resource was refused
C4_Witness ==
  /\ ret.op = "uploadCube" /\ type_ = "TwoD" /\ textureID_ # 0
  /\ ret.data /\ ret.numMipLevels = 1 /\ ret.res = InvalidOperation

\* C5: an uploadCube call on a resource that is not a Cube issues no backend
\* call and leaves the context's bindings and unpack alignment as they were.
C5_NonCubeTouchesNothing ==
  [][(ret'.op = "uploadCube" /\ type_ # "Cube" /\ phase = "created") =>
       (calls' = <<>> /\ bound' = bound /\ unpackAlignment' = unpackAlignment)]_vars

\* C5 witness: uploadCube with data was refused on a created 2D resource whose
\* context carries the alignment an earlier upload had set
C5_Witness ==
  /\ ret.op = "uploadCube" /\ type_ = "TwoD" /\ textureID_ # 0 /\ ret.data
  /\ ret.res = InvalidOperation /\ calls = <<>> /\ unpackAlignment # 4

\* C6 as claimed: when uploadCube reaches its face transfer, it returns the
\* Result of that transfer.
C6_FaceResultReturned ==
  (ret.op = "uploadCube" /\ ret.inner # "NotReached") => ret.res = ret.inner

\* C7 as claimed: after N >= 1 calls of getTextureId on one resource, whatever
\* values the backend returned from the resolution (0 included), the handle was
\* resolved once and made resident once, and all N calls returned one value.
C7_ResolvedOnce ==
  hist.getCalls >= 1 =>
    (hist.resolve = 1 /\ hist.resident = 1 /\ Cardinality(hist.returned) = 1)

\* C8: destruction of a resource that holds a backend id and a resolved
\* (nonzero) handle makes that handle non-resident once and then deletes the
\* object once, in that order; with a backend id and no resolved handle it only
\* deletes the object, once; with id 0 it issues no backend call.
C8_DestructionOrder ==
  phase = "destroyed" =>
    IF textureID_ = 0 THEN calls = <<>> /\ hist.del = 0 /\ hist.nonResident = 0
    ELSE IF textureHandle_ # 0
    THEN /\ Len(calls) = 2
         /\ calls[1].fn = "makeTextureHandleNonResident"
         /\ calls[1].args = <<textureHandle_>>
         /\ calls[2].fn = "deleteTextures" /\ calls[2].args = <<textureID_>>
         /\ hist.nonResident = 1 /\ hist.del = 1
    ELSE /\ Len(calls) = 1
         /\ calls[1].fn = "deleteTextures" /\ calls[1].args = <<textureID_>>
         /\ hist.nonResident = 0 /\ hist.del = 1

\* C8 witness: a created resource with a resident handle was destroyed
C8_Witness ==
  /\ phase = "destroyed" /\ textureID_ # 0 /\ textureHandle_ # 0
  /\ hist.resident = 1 /\ hist.nonResident = 1 /\ hist.del = 1

\* The descriptor fails one of the validations that precede id allocation
C9_Rejected ==
  \/ texDesc.usage \cap {"Sampled", "Storage"} = {}
       /\ texDesc.type = "TwoD" /\ texDesc.numMipLevels <= 1
  \/ toGLTarget(texDesc.type) = NoTarget
  \/ ~toFormatDescGL(texDesc.format, usageForFormat(texDesc)).ok
  \/ texDesc.format = "NoComponentType"
  \/ "Storage" \in texDesc.usage /\ "TexStorage" \notin features

\* The (format, usage) pair is not in the catalog, and create gets to ask
C9_UnknownPair ==
  /\ ~(texDesc.usage \cap {"Sampled", "Storage"} = {}
         /\ texDesc.type = "TwoD" /\ texDesc.numMipLevels <= 1)
  /\ toGLTarget(texDesc.type) # NoTarget
  /\ ~toFormatDescGL(texDesc.format, usageForFormat(texDesc)).ok

C10_InitFailure ==
  hist.init \notin {"NotRun", Ok} =>
    /\ textureID_ # 0 /\ hist.gen = 1
    /\ AllUnbound
    /\ ret.op = "create" => (ret.res = hist.init /\ ret.res # Ok)
    /\ phase = "created" => hist.del = 0
    /\ phase = "destroyed" =>
         (hist.del = 1 /\ calls[Len(calls)].fn = "deleteTextures"
            /\ calls[Len(calls)].args = <<textureID_>>)

\* C10 witness: a resource whose initialization failed was destroyed
C10_Witness ==
  /\ phase = "destroyed" /\ hist.init \notin {"NotRun", Ok}
  /\ textureID_ # 0 /\ hist.del = 1

\* The device offers a compressed format neither reserved storage (Immutable
\* allocation with the compressed-storage capability) nor compressed images
C11_NoCompressedPath ==
  /\ texDesc.format = "RGB8_ETC2"
  /\ ~("Storage" \in texDesc.usage /\ "FormatStorageCapability" \in features
         /\ "TextureCompressionTexStorage" \in features)
  /\ "TextureCompressionTexImage" \notin features

\* C11 as claimed: create of a compressed format returns Unsupported when the
\* device has neither compressed path, and returns Ok only when it has one.
C11_CompressedNeedsPath ==
  (ret.op = "create" /\ texDesc.format = "RGB8_ETC2") =>
    /\ C11_NoCompressedPath => ret.res = Unsupported
    /\ ret.res = Ok => ~C11_NoCompressedPath

\* The descriptor asks for Storage and the device lacks immutable storage
C12_StorageUnsupported ==
  ret.op = "create" /\ "Storage" \in texDesc.usage /\ "TexStorage" \notin features

\* C12 as claimed: create of any descriptor whose usage includes Storage, on a
\* device without TexStorage, returns Unsupported and allocates no id.
C12_AlwaysUnsupported ==
  C12_StorageUnsupported => (ret.res = Unsupported /\ hist.gen = 0)

\* C12 as amended: such a create allocates no id and issues no backend call; it
\* returns Unsupported when the type has no backend target or the format
\* resolves to a usable encoding, and ArgumentInvalid when the format is not in
\* the catalog or resolves without a component type (those tests come first).
C12_StorageWithoutTexStorage ==
  C12_StorageUnsupported =>
    /\ hist.gen = 0 /\ textureID_ = 0 /\ calls = <<>>
    /\ ret.res = (IF toGLTarget(texDesc.type) = NoTarget THEN Unsupported
                  ELSE IF texDesc.format \in {"Invalid", "NoComponentType"}
                  THEN ArgumentInvalid
                  ELSE Unsupported)

\* C12 witness: create({2D, RGBA8, Storage}) was refused on such a device
C12_Witness ==
  /\ C12_StorageUnsupported /\ texDesc.type = "TwoD" /\ texDesc.format = "RGBA_UNorm8"
  /\ ret.res = Unsupported /\ hist.gen = 0 /\ textureID_ = 0

\* The backend has no target for the descriptor's dimensionality
C13_NoBackendTarget ==
  \/ texDesc.type = "TwoDArray" /\ "Texture2DArray" \notin features
  \/ texDesc.type = "ThreeD" /\ "Texture3D" \notin features

\* C13: create of a descriptor whose dimensionality the backend does not
\* support returns Unsupported, with genTextures never called and no other
\* backend call issued.
C13_UnsupportedDimensionality ==
  (ret.op = "create" /\ C13_NoBackendTarget) =>
    /\ ret.res = Unsupported
    /\ hist.gen = 0 /\ textureID_ = 0 /\ target_ = NoTarget /\ calls = <<>>

\* C13 witness: create of a 2D-array on a device without the feature was refused
C13_Witness ==
  /\ ret.op = "create" /\ texDesc.type = "TwoDArray" /\ "Texture2DArray" \notin features
  /\ ret.res = Unsupported /\ hist.gen = 0

\* Usage includes Storage and the device reports the format's Storage capability
C14_StorageCapable ==
  "Storage" \in texDesc.usage /\ "FormatStorageCapability" \in features

\* Initialization ran and had an allocation to make: a dimensionality the
\* initializers handle, and a format the device can allocate
C14_Allocates ==
  /\ hist.init # "NotRun"
  /\ texDesc.type \in {"TwoD", "TwoDArray", "ThreeD", "Cube"}
  /\ \/ texDesc.format # "RGB8_ETC2"
     \/ C14_StorageCapable /\ "TextureCompressionTexStorage" \in features
     \/ "TextureCompressionTexImage" \in features

\* C14: when initialization allocates, it issues a single storage-reservation
\* call and no image call iff usage includes Storage and the device reports the
\* Storage capability for the format; otherwise it issues null-data image calls
\* and no reservation.  supportsTexStorage gives that same answer in every
\* later state, and no reservation is ever issued after create.
C14_AllocationStrategy ==
  C14_Allocates =>
    /\ hist.storage = (IF C14_StorageCapable THEN 1 ELSE 0)
    /\ supportsTexStorage(Tex) = C14_StorageCapable
    /\ ret.op = "create" =>
         IF C14_StorageCapable
         THEN /\ CountCalls(calls, StorageFns) = 1
              /\ CountCalls(calls, TransferFns) = 0
         ELSE /\ CountCalls(calls, StorageFns) = 0
              /\ CountCalls(calls, ImageFns) >= 1
              /\ \A i \in DOMAIN calls :
                   IsTransfer(calls[i]) => (calls[i].fn \in ImageFns /\ ~calls[i].data)
    /\ ret.op # "create" => CountCalls(calls, StorageFns) = 0

\* C14 witness: a resource allocated Immutable later took an upload of data to
\* its full extent through sub-image-replace
C14_Witness ==
  /\ C14_Allocates /\ C14_StorageCapable /\ hist.storage = 1
  /\ ret.op = "upload" /\ ret.data /\ ret.res = Ok
  /\ \E i \in DOMAIN calls :
       calls[i].fn \in SubImageFns /\ isValidForTexImage(Tex, calls[i].rng)

\* The transfer calls among cs, in the order issued
Transfers(cs) == SelectSeq(cs, IsTransfer)

\* C15 as claimed: a generic upload of data over one level of a Cube resource
\* that returns Ok has issued exactly six transfer calls, the i-th naming the
\* i-th face target in the order +X, -X, +Y, -Y, +Z, -Z, all for one region.
C15_SixFacesInOrder ==
  (ret.op = "upload" /\ ret.data /\ ret.numMipLevels = 1 /\ ret.res = Ok
     /\ type_ = "Cube" /\ textureID_ # 0) =>
    /\ Len(Transfers(calls)) = NumCubeFaces
    /\ \A i \in 1..Len(Transfers(calls)) :
         /\ Transfers(calls)[i].target = kCubeFaceTargets[i]
         /\ Transfers(calls)[i].rng = Transfers(calls)[1].rng

\* C16 as claimed: on a created Cube resource, uploadCube of data to any face
\* and any valid single-level range issues exactly one transfer call, and that
\* call names the target of the requested face.
C16_RequestedFaceOnly ==
  (phase = "created" /\ type_ = "Cube" /\ textureID_ # 0) =>
    \A face \in 1..NumCubeFaces, range \in RangeInputs(Tex) :
      (range.numMipLevels = 1 /\ validateRange(Tex, range) = Ok) =>
        /\ Len(Transfers(uploadCube(Tex, range, face, TRUE, 0, 0).calls)) = 1
        /\ Transfers(uploadCube(Tex, range, face, TRUE, 0, 0).calls)[1].target
             = kCubeFaceTargets[face]

\* The routine that serves each dimensionality other than Cube
C17_RoutineOf ==
  [OneD |-> "upload1D", OneDArray |-> "upload1DArray", TwoD |-> "upload2D",
   TwoDArray |-> "upload2DArray", ThreeD |-> "upload3D"]

\* C17 as claimed: on a created resource of any of the six dimensionalities,
\* upload of data to a valid single-level range is not rejected with
\* InvalidOperation, and the transfers it issues are those of the routine
\* matching the dimensionality (six face transfers for a Cube).
C17_DispatchedByDimensionality ==
  (phase = "created" /\ textureID_ # 0
     /\ type_ \in {"OneD", "OneDArray", "TwoD", "TwoDArray", "ThreeD", "Cube"}) =>
    \A range \in RangeInputs(Tex) :
      (range.numMipLevels = 1 /\ validateRange(Tex, range) = Ok) =>
        /\ upload(Tex, range, TRUE, 0, 0).res # InvalidOperation
        /\ Transfers(upload(Tex, range, TRUE, 0, 0).calls)
             = IF type_ = "Cube"
               THEN Transfers(CubeFaces(Tex, range, TRUE, 1, 0, <<>>).calls)
               ELSE Transfers(RunRoutine(C17_RoutineOf[type_], Tex, target_, range,
                                         TRUE, FALSE).calls)

\* C18 as claimed: on a created Mutable resource, upload of a null data pointer
\* to any valid single-level range returns Ok and allocates: it issues a
\* transfer call for the range, carrying no data.
C18_NullUploadAllocates ==
  (phase = "created" /\ hist.alloc = "Mutable") =>
    \A range \in RangeInputs(Tex) :
      (range.numMipLevels = 1 /\ validateRange(Tex, range) = Ok) =>
        /\ upload(Tex, range, FALSE, 0, 0).res = Ok
        /\ Len(Transfers(upload(Tex, range, FALSE, 0, 0).calls)) >= 1
        /\ \A i \in DOMAIN Transfers(upload(Tex, range, FALSE, 0, 0).calls) :
             ~Transfers(upload(Tex, range, FALSE, 0, 0).calls)[i].data

\* C18 as amended: upload of a null data pointer returns Ok and issues no
\* backend call at all, for every range and every resource.
C18_NullUploadIsNoOp ==
  (ret.op = "upload" /\ ~ret.data) => (ret.res = Ok /\ calls = <<>>)

\* C18 witness: a null-data upload to a Mutable resource, after an upload of
\* data had set the unpack alignment, returned Ok without a backend call
C18_Witness ==
  /\ ret.op = "upload" /\ ~ret.data /\ ret.numMipLevels = 1
  /\ hist.alloc = "Mutable" /\ unpackAlignment # 4
  /\ ret.res = Ok /\ calls = <<>>

C20_PassesValidation ==
  /\ (texDesc.usage \cap {"Sampled", "Storage"} # {}
        \/ texDesc.type # "TwoD" \/ texDesc.numMipLevels > 1)
  /\ createTextureChecks(texDesc) = Ok

\* C20: create of an ExternalImage descriptor that passes validation allocates
\* exactly one id, records usage and returns Ok with genTextures as its only
\* backend call (no bind, parameter, storage or upload call) and without running
\* initialization; for every other type that passes validation, initialization
\* is run, after genTextures, and its Result is the Result of create.
C20_ExternalImageNotInitialized ==
  (ret.op = "create" /\ C20_PassesValidation) =>
    IF texDesc.type = "ExternalImage"
    THEN /\ ret.res = Ok
         /\ calls = <<genTextures(1)>>
         /\ hist.gen = 1 /\ textureID_ = 1
         /\ usage_ = texDesc.usage
         /\ hist.init = "NotRun" /\ hist.storage = 0
         /\ AllUnbound
    ELSE /\ hist.init # "NotRun" /\ ret.res = hist.init
         /\ hist.gen = 1 /\ textureID_ = 1
         /\ Len(calls) >= 3
         /\ calls[1] = genTextures(1)
         /\ calls[2] = bindTexture(target_, 1)

\* C20 witness: an ExternalImage descriptor was created with the single call
C20_Witness ==
  /\ ret.op = "create" /\ C20_PassesValidation
  /\ texDesc.type = "ExternalImage"
  /\ ret.res = Ok /\ calls = <<genTextures(1)>> /\ hist.init = "NotRun"

\* C21 as claimed: when create initialized a Mutable resource of N mip levels
\* and the backend reported no error, the transfer calls of the initialization
\* are, for levels 0 .. N-1 in ascending order, one plain image-replace call
\* (for a Cube one per face) with a null data pointer over the full extent of
\* the level: N * faces calls in all, exactly one for a non-Cube with N = 1.
C21_LevelsAllocatedInOrder ==
  (ret.op = "create" /\ hist.alloc = "Mutable" /\ ret.res # RuntimeError) =>
    /\ Len(Transfers(calls)) = numMipLevels_ * PollsPerUpload(Tex)
    /\ \A i \in DOMAIN Transfers(calls) :
         /\ Transfers(calls)[i].fn \in {"texImage1D", "texImage2D", "texImage3D"}
         /\ ~Transfers(calls)[i].data
         /\ Transfers(calls)[i].rng = getFullRange(Tex, (i - 1) \div PollsPerUpload(Tex), 1)

\* The reservation call initializeWithTexStorage issues for the resource: all
\* levels at the full extent of level 0, with the resolved internal format
C22_Reservation(c) ==
  /\ c.fn = (IF type_ \in {"TwoD", "Cube"} THEN "texStorage2D" ELSE "texStorage3D")
  /\ c.target = target_
  /\ c.tags = <<formatDescGL_.internalFormat>>
  /\ c.rng = getFullRange(Tex, 0, numMipLevels_)
  /\ c.args = (CASE type_ \in {"TwoD", "Cube"} -> <<numMipLevels_, TexSize, TexSize>>
                 [] type_ = "TwoDArray" ->
                      <<numMipLevels_, TexSize, TexSize, BaseLayers(type_)>>
                 [] type_ = "ThreeD" ->
                      <<numMipLevels_, TexSize, TexSize, BaseDepth(type_)>>)

\* C22: for a resource allocated Immutable (2D, 2D-array, 3D or Cube, the
\* dimensionalities that have a reservation call), exactly one reservation call
\* is issued over the whole lifetime, whatever the backend then reports: it is
\* issued by create, with no transfer call, for all N levels at full extent
\* with the resolved internal format; no later operation issues a reservation
\* or an image-replace call.
C22_ReservedOnce ==
  (hist.alloc = "Immutable" /\ type_ \in {"TwoD", "TwoDArray", "ThreeD", "Cube"}) =>
    /\ hist.storage = 1
    /\ ret.op = "create" =>
         /\ CountCalls(calls, StorageFns) = 1
         /\ CountCalls(calls, TransferFns) = 0
         /\ \A i \in DOMAIN calls : calls[i].fn \in StorageFns => C22_Reservation(calls[i])
    /\ ret.op # "create" => CountCalls(calls, StorageFns \cup ImageFns) = 0

\* C22 witness: a two-level Immutable resource took a later upload of data over
\* a full level, through sub-image-replace, with the one reservation standing
C22_Witness ==
  /\ hist.alloc = "Immutable" /\ numMipLevels_ = 2 /\ hist.storage = 1
  /\ ret.op \in {"upload", "uploadCube"} /\ ret.data
  /\ \E i \in DOMAIN calls :
       calls[i].fn \in SubImageFns /\ isValidForTexImage(Tex, calls[i].rng)

\* The backend requires the channel remap for the resource's format
C23_RemapRequired ==
  ~isCompressed /\ format_ = "A_UNorm8" /\ "SwizzleAlphaTexturesReq" \in features

\* C23: the channel remap (its four texParameteri calls) is applied at most once
\* in the lifetime of a resource, and exactly when initialization ran on a
\* non-compressed resource whose format the backend requires it for; it is
\* issued by create only, after the resource is bound and before every
\* reservation and transfer call, never for a compressed resource and never by
\* upload, uploadCube or destruction.
C23_RemapOnceAtInitialization ==
  /\ hist.swizzle = (IF hist.init # "NotRun" /\ C23_RemapRequired THEN 4 ELSE 0)
  /\ isCompressed => hist.swizzle = 0
  /\ ret.op # "create" => \A i \in DOMAIN calls : ~IsSwizzle(calls[i])
  /\ ret.op = "create" =>
       \A i \in DOMAIN calls :
         IsSwizzle(calls[i]) =>
           /\ calls[i].target = target_
           /\ \E j \in 1..(i - 1) : calls[j] = bindTexture(target_, textureID_)
           /\ \A k \in 1..(i - 1) : calls[k].fn \notin StorageFns \cup TransferFns
           /\ \E j \in (i + 1)..Len(calls) : calls[j] = bindTexture(target_, 0)

\* C23 witness: a resource whose channels were remapped at initialization took
\* a later upload of data, whose calls did not remap again
C23_Witness ==
  /\ hist.swizzle = 4 /\ C23_RemapRequired
  /\ ret.op = "upload" /\ ret.data /\ ret.res = Ok
  /\ \E i \in DOMAIN calls : IsTransfer(calls[i])

CompressedFns ==
  {"compressedTexImage1D", "compressedTexImage2D", "compressedTexImage3D",
   "compressedTexSubImage1D", "compressedTexSubImage2D", "compressedTexSubImage3D"}

\* The byte length a compressed transfer call carries (its last integer argument)
CompressedBytes(c) == c.args[Len(c.args)]

C25_ValidatedBeforeTransfer ==
  (phase = "created" /\ textureID_ # 0) =>
    /\ \A name \in RoutineNames, range \in RangeInputs(Tex), data, err \in BOOLEAN :
         validateRange(Tex, range) # Ok =>
           RunRoutine(name, Tex, target_, range, data, err)
             = Routine(<<>>, validateRange(Tex, range))
    /\ (ret.op \in {"upload", "uploadCube"}
          /\ ret.inner \in {ArgumentInvalid, ArgumentOutOfRange}) => NoTransfer(calls)
    /\ \A i \in DOMAIN calls :
         IsTransfer(calls[i]) => validateRange(Tex, calls[i].rng) = Ok

\* C25 witness: an upload of data over a region past the edge reached its
\* routine, which returned the validation error without a transfer call
C25_Witness ==
  /\ ret.op = "upload" /\ ret.data /\ ret.res = ArgumentOutOfRange
  /\ textureID_ # 0 /\ NoTransfer(calls)
  /\ \E i \in DOMAIN calls : calls[i].fn = "pixelStorei"

\* C26: on a created resource, each of the five routines, for every offered
\* range that passes validation, issues a compressed transfer call iff the
\* format is compressed and the data pointer is non-null, and otherwise the
\* plain call with the transfer format and component type; every compressed
\* call any operation issued carries data on a compressed resource, and every
\* null-data transfer (those of Mutable initialization) is a plain call.
C26_CompressedOnlyWithData ==
  /\ (phase = "created" /\ textureID_ # 0) =>
       \A name \in RoutineNames, range \in RangeInputs(Tex), data \in BOOLEAN :
         validateRange(Tex, range) = Ok =>
           \A cs \in {RunRoutine(name, Tex, target_, range, data, FALSE).calls} :
             /\ Len(cs) = 1
             /\ cs[1].fn \in CompressedFns <=> (isCompressed /\ data)
             /\ ~(isCompressed /\ data) =>
                  SubSeq(cs[1].tags, Len(cs[1].tags) - 1, Len(cs[1].tags))
                    = <<formatDescGL_.format, formatDescGL_.type>>
  /\ \A i \in DOMAIN calls :
       IsTransfer(calls[i]) => (calls[i].fn \in CompressedFns <=> (isCompressed /\ calls[i].data))

\* C26 witness: the Mutable initialization of a compressed resource allocated a
\* level with a plain image call carrying no data
C26_Witness ==
  /\ ret.op = "create" /\ isCompressed /\ hist.alloc = "Mutable"
  /\ \E i \in DOMAIN calls :
       /\ calls[i].fn \in {"texImage2D", "texImage3D"} /\ ~calls[i].data
       /\ calls[i].tags = <<formatDescGL_.internalFormat, formatDescGL_.format,
                            formatDescGL_.type>>

\* The upload(GLenum, ...) invocations among cs: each sets the unpack alignment
C27_Uploads(cs) == Len(SelectSeq(cs, LAMBDA c : c.fn = "pixelStorei"))

\* C27: for a resource that create initialized Mutable, with N levels and F
\* transfers per level (six for a Cube, one otherwise), initialization with the
\* backend reporting an error at its k-th poll (1 <= k <= N * F) issues exactly
\* k transfer calls and (k - 1) \div F + 1 level uploads, none for a higher level
\* and none for a later face, returns RuntimeError, and ends by binding 0; with
\* no error reported all N * F transfers are issued; a resource whose
\* dimensionality has no case in the dispatch fails at level 0 and issues no
\* upload for level 1.  createTexture returns what initialize returns.
C27_StopsAtFirstFailure ==
  (CreateCalled /\ hist.alloc = "Mutable") =>
    /\ \A k \in 0..MaxInitPolls :
         \A r \in {initialize(Tex, glInternalFormat_, k)} :
           /\ r.calls[Len(r.calls)] = bindTexture(target_, 0)
           /\ createTexture(texDesc, textureID_, k).res = r.res
           /\ IF type_ \notin {"TwoD", "TwoDArray", "ThreeD", "Cube"}
              THEN /\ r.res = InvalidOperation
                   /\ C27_Uploads(r.calls) = 1 /\ Transfers(r.calls) = <<>>
              ELSE IF k \in 1..(numMipLevels_ * PollsPerUpload(Tex))
              THEN /\ r.res = RuntimeError
                   /\ Len(Transfers(r.calls)) = k
                   /\ C27_Uploads(r.calls) = (k - 1) \div PollsPerUpload(Tex) + 1
              ELSE /\ r.res = Ok
                   /\ Len(Transfers(r.calls)) = numMipLevels_ * PollsPerUpload(Tex)
    /\ (ret.op = "create" /\ hist.init # Ok) =>
         /\ ret.res = hist.init
         /\ AllUnbound
         /\ calls[Len(calls)] = bindTexture(target_, 0)
         /\ Len(Transfers(calls)) <= C27_Uploads(calls) * PollsPerUpload(Tex)
         /\ Len(Transfers(calls)) >= (C27_Uploads(calls) - 1) * PollsPerUpload(Tex)

\* C27 witness: the initialization of a two-level Mutable 2D resource failed at
\* level 0; level 1 was not uploaded, create returned the error, nothing is bound
C27_Witness ==
  /\ ret.op = "create" /\ hist.alloc = "Mutable" /\ type_ = "TwoD" /\ numMipLevels_ = 2
  /\ ret.res = RuntimeError /\ hist.init = RuntimeError
  /\ Len(Transfers(calls)) = 1 /\ Transfers(calls)[1].rng.mipLevel = 0
  /\ AllUnbound

\* The descriptors TextureBuffer::create refuses itself
C28_RefusedByCreate ==
  /\ texDesc.usage \cap {"Sampled", "Storage"} = {}
  /\ texDesc.type = "TwoD"
  /\ texDesc.numMipLevels <= 1

\* C28: create (the base-class create having succeeded) of a descriptor whose
\* usage has neither Sampled nor Storage, whose type is 2D and that has at most
\* one mip level returns Unsupported with no backend call, no id and no format
\* resolved; for every other descriptor what create returns, issues and leaves
\* in the resource is what createTexture returns, issues and leaves.
C28_WrapperRejection ==
  ret.op = "create" =>
    IF C28_RefusedByCreate
    THEN /\ ret.res = Unsupported
         /\ calls = <<>> /\ hist.gen = 0 /\ textureID_ = 0
         /\ formatDescGL_ = NoFormatDescGL /\ hist.init = "NotRun"
    ELSE \E k \in 0..MaxInitPolls :
           \E c \in {createTexture(texDesc, 1, k)} :
             /\ ret.res = c.res /\ calls = c.calls
             /\ textureID_ = c.id /\ target_ = c.target
             /\ formatDescGL_ = c.fd /\ usage_ = c.usage /\ hist.init = c.init

\* C28 witness: an attachment-only 2D descriptor with one level was refused
C28_Witness ==
  /\ ret.op = "create" /\ C28_RefusedByCreate
  /\ ret.res = Unsupported /\ hist.gen = 0 /\ calls = <<>>

\* C29: every asset a loadImageData call opened is closed exactly once by that
\* call, by its last asset call, after the open and after every use (oversized
\* length, read-size mismatch, normal completion); so between calls as many
\* assets were closed as were opened.  A call with an empty image name makes no
\* asset call, a call whose open failed makes no other asset call, and both
\* return an empty ImageData.
C29_AssetClosedOnce ==
  /\ loader.opened = loader.closed
  /\ \A i \in DOMAIN loader.calls :
       /\ IsOpened(loader.calls[i]) =>
            /\ i = 1
            /\ Len(SelectSeq(loader.calls,
                             LAMBDA c : IsClosed(c) /\ c.asset = loader.calls[i].asset)) = 1
            /\ IsClosed(loader.calls[Len(loader.calls)])
       /\ IsClosed(loader.calls[i]) =>
            /\ i = Len(loader.calls)
            /\ IsOpened(loader.calls[1]) /\ loader.calls[1].asset = loader.calls[i].asset
       /\ loader.calls[i].asset = 0 =>
            (loader.calls = <<AssetCall("AAssetManager_open", 0, 0)>>
               /\ loader.result = ImageData("Empty", 0))
  /\ (loader.loads >= 1 /\ loader.imageName = "") =>
       (loader.calls = <<>> /\ loader.result = ImageData("Empty", 0))

\* C29 witness: a call whose read returned fewer bytes than the asset's length
\* closed the asset once and went on to decode
C29_Witness ==
  /\ Len(loader.calls) = 4
  /\ loader.calls[2].fn = "AAsset_getLength64" /\ loader.calls[3].fn = "AAsset_read"
  /\ loader.calls[3].value # loader.calls[2].value
  /\ IsClosed(loader.calls[4]) /\ loader.calls[4].asset = loader.calls[1].asset
  /\ loader.result.kind = "FromMemory"
  /\ loader.opened = loader.closed /\ loader.opened >= 2

====
